---------------------------- MODULE Spec2Model ----------------------------
(***************************************************************************)
(* Model of the capture / split / merge core of ai-meeting-summary.        *)
(*                                                                         *)
(*  - AudioRecorder / MeetingRecorder   (src/src/audio/recorder.py)        *)
(*  - AudioProcessor.split_into_chunks  (src/src/audio/processor.py)       *)
(*  - WhisperClient.merge_transcription_results                            *)
(*                                  (src/src/transcription/whisper_client.py)*)
(*                                                                         *)
(* Three specifications share the variables: Spec (the recorder and its    *)
(* capture threads), SpecSplit (the chunk splitter run on bounded buffers) *)
(* and SpecMerge (the merge run on bounded lists of chunk results).        *)
(***************************************************************************)
EXTENDS Integers, Sequences, FiniteSets, TLC

(***************************************************************************)
(* Bounds.                                                                 *)
(***************************************************************************)
\* number of capture threads one recorder may launch (successful starts)
MaxThreads == 2
\* number of device reads that complete over the life of the recorder
MaxReads == 2
\* clock readings explored from 0 on, besides the default ceiling
MaxTick == 0
\* samples in a buffer handed to split_into_chunks
MaxSamples == 4
\* chunk_duration_seconds handed to split_into_chunks
MaxChunkSeconds == 2
\* sample rates handed to split_into_chunks
MaxRate == 2
\* chunk results handed to merge_transcription_results
MaxChunks == 2
\* samples in a buffer handed to enhance_audio
MaxEnhanceSamples == 2
\* largest sample value in a buffer handed to enhance_audio
MaxAmplitude == 2

(***************************************************************************)
(* Program constants.                                                      *)
(***************************************************************************)
\* config.meeting.duration_minutes, the ceiling used when none is passed
DefaultDurationMinutes == 60

\* the values of None for the integer-valued fields
NoThread == 0
NoTime == -1
NoLimit == 0

Threads == 1..MaxThreads

\* the readings datetime.now() can give, in minutes since construction
Instants == (0..MaxTick) \cup {DefaultDurationMinutes}

\* duration_minutes arguments: 0 stands for None (and for 0, equally falsy)
DurationArgs == {0, 1}

\* on_recording_callback arguments: None or a callable
CallbackArgs == {"none", "set"}

VARIABLES
    \* ---- AudioRecorder fields
    is_recording,           \* self.is_recording
    recording_thread,       \* self.recording_thread: NoThread or a thread id
    audio_frames,           \* self.audio_frames: sequence of frames
    start_time,             \* self.start_time: NoTime or an instant
    duration_limit,         \* self.duration_limit: NoLimit or minutes
    on_recording_callback,  \* self.on_recording_callback
    \* ---- MeetingRecorder field
    stop_requested,         \* self._stop_requested
    \* ---- capture threads and the device
    pc,                     \* position of each capture thread in _record_audio
    streams,                \* threads whose input stream is open
    reads,                  \* device reads completed so far (names the frames)
    now,                    \* the latest reading of datetime.now(), in minutes
    \* ---- the caller
    caller,                 \* "idle", or "join" inside stop_recording
    ret,                    \* the last value returned to the caller
    saved,                  \* frames written by the session's last _save_audio_file
    cb_log,                 \* arguments the progress callback was invoked with
    \* ---- observation
    stopped,                \* no start_recording since the last stop_recording return
    req_k                   \* frames buffered when request_stop hit a recording, or -1

recVars == <<is_recording, recording_thread, audio_frames, start_time,
             duration_limit, on_recording_callback, stop_requested, pc,
             streams, reads, now, caller, ret, saved, cb_log, stopped, req_k>>

\* ---- AudioProcessor.split_into_chunks, one call
VARIABLES
    sp_audio,               \* audio_data: the samples
    sp_sr,                  \* sr
    sp_secs,                \* chunk_duration_seconds
    sp_pc,                  \* "call", "loop" or "returned"
    sp_i,                   \* the loop variable i
    sp_chunks,              \* chunks
    sp_ret                  \* the list returned

splitVars == <<sp_audio, sp_sr, sp_secs, sp_pc, sp_i, sp_chunks, sp_ret>>

\* ---- WhisperClient.merge_transcription_results, one call
VARIABLES
    mg_results,             \* results: the chunk results, in list order
    mg_pc,                  \* "loop" or "returned"
    mg_i,                   \* the loop variable i
    mg_acc,                 \* merged_text, merged_segments, merged_words, total_duration
    mg_ret                  \* merged_result

mergeVars == <<mg_results, mg_pc, mg_i, mg_acc, mg_ret>>

\* ---- WhisperClient / MeetingTranscriber: one recognition request
VARIABLES
    tr_local_only,          \* self.local_only
    tr_client,              \* self.openai_client is set
    tr_mode,                \* the method called: "chunks", "file", "meeting"
                            \* or "meeting_chunks"
    tr_n,                   \* len(audio_chunks); chunk i has path i
    tr_pc,                  \* "off", "run", "returned" or "raised"
    tr_i,                   \* the loop variable i of transcribe_chunks
    tr_stage,               \* position inside transcribe_file
    tr_results,             \* results of transcribe_chunks
    tr_calls,               \* the calls made to the two engines, in order
    tr_ret,                 \* what the request returned or raised
    tr_prev                 \* NoRun, or the calls and the return value of the
                            \* request when it is being made a second time

trVars == <<tr_local_only, tr_client, tr_mode, tr_n, tr_pc, tr_i, tr_stage,
            tr_results, tr_calls, tr_ret, tr_prev>>

\* ---- AudioProcessor.enhance_audio, one call
VARIABLES
    en_audio,               \* audio_data: the samples passed in
    en_sr,                  \* sr
    en_pc,                  \* "off", the stage about to run, "log" or "returned"
    en_enhanced,            \* enhanced
    en_stages,              \* the stage calls made so far, in order
    en_ret                  \* the buffer returned

enVars == <<en_audio, en_sr, en_pc, en_enhanced, en_stages, en_ret>>

\* ---- a pipeline command of main.py, after process_meeting_audio
VARIABLES
    cmd_pc,                 \* "off", "processed", "recognize", "formatting"
                            \* or "aborted"
    cmd_audio_file,         \* audio_file
    cmd_processed_file,     \* processed_file
    cmd_chunks,             \* len(chunks)
    cmd_paths               \* the paths handed to the recognition request

cmdVars == <<cmd_pc, cmd_audio_file, cmd_processed_file, cmd_chunks, cmd_paths>>

restVars == <<enVars, cmdVars>>

pureVars == <<splitVars, mergeVars, trVars, restVars>>

vars == <<recVars, splitVars, mergeVars, trVars, restVars>>

Ret(op, val, k) == [op |-> op, val |-> val, k |-> k]

(***************************************************************************)
(* AudioRecorder.__init__ / MeetingRecorder.__init__                       *)
(***************************************************************************)
RecInit ==
    /\ is_recording = FALSE
    /\ recording_thread = NoThread
    /\ audio_frames = <<>>
    /\ start_time = NoTime
    /\ duration_limit = NoLimit
    /\ on_recording_callback = "none"
    /\ stop_requested = FALSE
    /\ pc = [t \in Threads |-> "unborn"]
    /\ streams = {}
    /\ reads = 0
    /\ now = 0
    /\ caller = "idle"
    /\ ret = Ret("none", "none", -1)
    /\ saved = <<>>
    /\ cb_log = <<>>
    /\ stopped = TRUE
    /\ req_k = -1

(***************************************************************************)
(* AudioRecorder.start_recording                                           *)
(***************************************************************************)
\* start_recording as it would be if the frame store were reset before the
\* is_recording test instead of after it
StartRecordingBodyResetFirst(duration_minutes, callback) ==
    /\ caller = "idle"
    /\ IF is_recording
       THEN /\ ret' = Ret("start_recording", "false", -1)
            /\ audio_frames' = <<>>
            /\ UNCHANGED <<is_recording, recording_thread, start_time,
                           duration_limit, on_recording_callback, pc, stopped,
                           now, saved>>
       ELSE /\ recording_thread < MaxThreads
            /\ duration_limit' = IF duration_minutes # 0
                                 THEN duration_minutes
                                 ELSE DefaultDurationMinutes
            /\ on_recording_callback' = callback
            /\ audio_frames' = <<>>
            /\ \E c \in Instants : c >= now /\ now' = c /\ start_time' = c
            /\ saved' = <<>>
            /\ is_recording' = TRUE
            /\ recording_thread' = recording_thread + 1
            /\ pc' = [pc EXCEPT ![recording_thread + 1] = "open"]
            /\ ret' = Ret("start_recording", "true", -1)
            /\ stopped' = FALSE
    /\ req_k' = -1
    /\ UNCHANGED <<streams, reads, caller, cb_log>>
    /\ UNCHANGED pureVars

\* lines 54-75; timedelta() and Thread.start() are taken not to raise, so the
\* except clause of lines 77-79 is never entered
StartRecordingBody(duration_minutes, callback) ==
    /\ caller = "idle"
    /\ IF is_recording
       THEN /\ ret' = Ret("start_recording", "false", -1)
            /\ UNCHANGED <<is_recording, recording_thread, audio_frames,
                           start_time, duration_limit, on_recording_callback,
                           pc, stopped, now, saved>>
       ELSE /\ recording_thread < MaxThreads
            /\ duration_limit' = IF duration_minutes # 0
                                 THEN duration_minutes
                                 ELSE DefaultDurationMinutes
            /\ on_recording_callback' = callback
            /\ audio_frames' = <<>>
            /\ \E c \in Instants : c >= now /\ now' = c /\ start_time' = c
            /\ saved' = <<>>
            /\ is_recording' = TRUE
            /\ recording_thread' = recording_thread + 1
            /\ pc' = [pc EXCEPT ![recording_thread + 1] = "open"]
            /\ ret' = Ret("start_recording", "true", -1)
            /\ stopped' = FALSE
    /\ req_k' = -1
    /\ UNCHANGED <<streams, reads, caller, cb_log>>
    /\ UNCHANGED pureVars

StartRecording(duration_minutes, callback) ==
    /\ StartRecordingBody(duration_minutes, callback)
    /\ UNCHANGED stop_requested

(***************************************************************************)
(* MeetingRecorder.start_meeting_recording                                 *)
(***************************************************************************)
StartMeetingRecording(duration_minutes) ==
    /\ stop_requested' = FALSE
    /\ StartRecordingBody(duration_minutes, "set")

(***************************************************************************)
(* AudioRecorder.stop_recording, up to the join                            *)
(***************************************************************************)
\* stop_recording as it would be without the early return of lines 88-90
StopRecordingBeginNoEarlyReturn ==
    /\ caller = "idle"
    /\ is_recording' = FALSE
    /\ caller' = "join"
    /\ UNCHANGED <<ret, stopped, req_k>>
    /\ UNCHANGED <<recording_thread, audio_frames, start_time, duration_limit,
                   on_recording_callback, stop_requested, pc, streams, reads,
                   now, saved, cb_log>>
    /\ UNCHANGED pureVars

StopRecordingBegin ==
    /\ caller = "idle"
    /\ IF ~is_recording /\ audio_frames = <<>>
       THEN /\ ret' = Ret("stop_recording", "none", req_k)
            /\ stopped' = TRUE
            /\ req_k' = -1
            /\ UNCHANGED <<is_recording, caller>>
       ELSE /\ is_recording' = FALSE
            /\ caller' = "join"
            /\ UNCHANGED <<ret, stopped, req_k>>
    /\ UNCHANGED <<recording_thread, audio_frames, start_time, duration_limit,
                   on_recording_callback, stop_requested, pc, streams, reads,
                   now, saved, cb_log>>
    /\ UNCHANGED pureVars

\* the part of stop_recording after the join as it would be without the test
\* of the frame store: a file is written and its path returned in every case
StopRecordingSaveNoTest ==
    /\ caller' = "idle"
    /\ saved' = audio_frames
    /\ ret' = Ret("stop_recording", "path", req_k)
    /\ stopped' = TRUE
    /\ req_k' = -1
    /\ UNCHANGED <<is_recording, recording_thread, audio_frames, start_time,
                   duration_limit, on_recording_callback, stop_requested, pc,
                   streams, reads, now, cb_log>>
    /\ UNCHANGED pureVars

\* the part of stop_recording after the join: write the frames if there are
\* any (the file write is taken not to raise)
StopRecordingSave ==
    /\ caller' = "idle"
    /\ IF audio_frames # <<>>
       THEN /\ saved' = audio_frames
            /\ ret' = Ret("stop_recording", "path", req_k)
       ELSE /\ saved' = saved
            /\ ret' = Ret("stop_recording", "none", req_k)
    /\ stopped' = TRUE
    /\ req_k' = -1
    /\ UNCHANGED <<is_recording, recording_thread, audio_frames, start_time,
                   duration_limit, on_recording_callback, stop_requested, pc,
                   streams, reads, now, cb_log>>
    /\ UNCHANGED pureVars

\* the places where a capture thread can be when the join's 5 seconds expire:
\* anywhere in _record_audio, the wait being bounded whatever the thread does
BlockingPcs == {"open", "while", "read", "callback"}

\* the two ends of _record_audio: past the loop and the close of the stream
\* ("done"), or through the except clause ("failed")
Ended == {"done", "failed"}

\* join(timeout=5.0) returns because the thread has ended (or there is none)
StopRecordingJoined ==
    /\ caller = "join"
    /\ recording_thread = NoThread \/ pc[recording_thread] \in Ended
    /\ StopRecordingSave

\* the join as it would be without a timeout: it never returns while the
\* thread runs
StopRecordingJoinUnbounded ==
    /\ caller = "join"
    /\ recording_thread # NoThread
    /\ pc[recording_thread] \in BlockingPcs
    /\ pc[recording_thread] \in Ended
    /\ StopRecordingSave

\* join(timeout=5.0) returns because the wait expired
StopRecordingJoinTimeout ==
    /\ caller = "join"
    /\ recording_thread # NoThread
    /\ pc[recording_thread] \in BlockingPcs
    /\ StopRecordingSave

(***************************************************************************)
(* MeetingRecorder.request_stop                                            *)
(***************************************************************************)
\* request_stop as it would be if it flipped is_recording instead of clearing it
AfterRequestStopFlip(s) ==
    [stop_requested |-> TRUE, is_recording |-> ~s.is_recording]

\* the fields request_stop touches, before -> after
AfterRequestStop(s) ==
    [stop_requested |-> TRUE,
     is_recording |-> IF s.is_recording THEN FALSE ELSE s.is_recording]

StopFields == [stop_requested |-> stop_requested, is_recording |-> is_recording]

RequestStop ==
    /\ stop_requested' = AfterRequestStop(StopFields).stop_requested
    /\ is_recording' = AfterRequestStop(StopFields).is_recording
    /\ req_k' = IF is_recording THEN Len(audio_frames) ELSE req_k
    /\ UNCHANGED <<recording_thread, audio_frames, start_time, duration_limit,
                   on_recording_callback, pc, streams, reads, now, caller,
                   ret, saved, cb_log, stopped>>
    /\ UNCHANGED pureVars

(***************************************************************************)
(* AudioRecorder._record_audio, one action per step of the thread          *)
(***************************************************************************)
\* self.audio.open(...) succeeds
OpenStream(t) ==
    /\ pc[t] = "open"
    /\ streams' = streams \cup {t}
    /\ pc' = [pc EXCEPT ![t] = "while"]
    /\ UNCHANGED <<is_recording, recording_thread, audio_frames, start_time,
                   duration_limit, on_recording_callback, stop_requested,
                   reads, now, caller, ret, saved, cb_log, stopped, req_k>>
    /\ UNCHANGED pureVars

\* self.audio.open(...) raises: the except clause clears is_recording
OpenFails(t) ==
    /\ pc[t] = "open"
    /\ is_recording' = FALSE
    /\ pc' = [pc EXCEPT ![t] = "failed"]
    /\ UNCHANGED <<recording_thread, audio_frames, start_time, duration_limit,
                   on_recording_callback, stop_requested, streams, reads, now,
                   caller, ret, saved, cb_log, stopped, req_k>>
    /\ UNCHANGED pureVars

\* the elapsed-time test as it would be with > in place of >=
LimitReachedStrict(c) ==
    /\ duration_limit # NoLimit
    /\ start_time # NoTime
    /\ c - start_time > duration_limit

\* the elapsed-time test at the top of the loop body, with clock reading c
LimitReached(c) ==
    /\ duration_limit # NoLimit
    /\ start_time # NoTime
    /\ c - start_time >= duration_limit

\* while self.is_recording: is false; the stream is stopped and closed
LoopExits(t) ==
    /\ pc[t] = "while"
    /\ ~is_recording
    /\ streams' = streams \ {t}
    /\ pc' = [pc EXCEPT ![t] = "done"]
    /\ UNCHANGED <<is_recording, recording_thread, audio_frames, start_time,
                   duration_limit, on_recording_callback, stop_requested,
                   reads, now, caller, ret, saved, cb_log, stopped, req_k>>
    /\ UNCHANGED pureVars

\* the loop test passes and the ceiling is reached: clear is_recording, break,
\* stop and close the stream
LimitEnds(t) ==
    /\ pc[t] = "while"
    /\ is_recording
    /\ \E c \in Instants : c >= now /\ now' = c /\ LimitReached(c)
    /\ is_recording' = FALSE
    /\ streams' = streams \ {t}
    /\ pc' = [pc EXCEPT ![t] = "done"]
    /\ UNCHANGED <<recording_thread, audio_frames, start_time, duration_limit,
                   on_recording_callback, stop_requested, reads, caller, ret,
                   saved, cb_log, stopped, req_k>>
    /\ UNCHANGED pureVars

\* the loop test passes and the ceiling is not reached: go on to stream.read
LoopContinues(t) ==
    /\ pc[t] = "while"
    /\ is_recording
    /\ \E c \in Instants : c >= now /\ now' = c /\ ~LimitReached(c)
    /\ pc' = [pc EXCEPT ![t] = "read"]
    /\ UNCHANGED <<is_recording, recording_thread, audio_frames, start_time,
                   duration_limit, on_recording_callback, stop_requested,
                   streams, reads, caller, ret, saved, cb_log, stopped, req_k>>
    /\ UNCHANGED pureVars

\* stream.read returns a frame, which is appended to self.audio_frames
ReadFrame(t) ==
    /\ pc[t] = "read"
    /\ reads < MaxReads
    /\ reads' = reads + 1
    /\ audio_frames' = Append(audio_frames, reads + 1)
    /\ pc' = [pc EXCEPT ![t] = "callback"]
    /\ UNCHANGED <<is_recording, recording_thread, start_time, duration_limit,
                   on_recording_callback, stop_requested, streams, now, caller,
                   ret, saved, cb_log, stopped, req_k>>
    /\ UNCHANGED pureVars

\* stream.read raises, as it would be if the except clause only logged
ReadFailsKeepsFlag(t) ==
    /\ pc[t] = "read"
    /\ pc' = [pc EXCEPT ![t] = "failed"]
    /\ UNCHANGED <<is_recording, recording_thread, audio_frames, start_time,
                   duration_limit, on_recording_callback, stop_requested,
                   streams, reads, now, caller, ret, saved, cb_log, stopped,
                   req_k>>
    /\ UNCHANGED pureVars

\* stream.read raises: the except clause clears is_recording, the stream stays open
ReadFails(t) ==
    /\ pc[t] = "read"
    /\ is_recording' = FALSE
    /\ pc' = [pc EXCEPT ![t] = "failed"]
    /\ UNCHANGED <<recording_thread, audio_frames, start_time, duration_limit,
                   on_recording_callback, stop_requested, streams, reads, now,
                   caller, ret, saved, cb_log, stopped, req_k>>
    /\ UNCHANGED pureVars

\* the progress callback, when set, is called with len(self.audio_frames)
\* and returns
Callback(t) ==
    /\ pc[t] = "callback"
    /\ cb_log' = IF on_recording_callback # "none"
                 THEN Append(cb_log, Len(audio_frames))
                 ELSE cb_log
    /\ pc' = [pc EXCEPT ![t] = "while"]
    /\ UNCHANGED <<is_recording, recording_thread, audio_frames, start_time,
                   duration_limit, on_recording_callback, stop_requested,
                   streams, reads, now, caller, ret, saved, stopped, req_k>>
    /\ UNCHANGED pureVars

\* the progress callback is called with len(self.audio_frames) and raises:
\* the inner except clause logs the error and the loop goes on
CallbackRaises(t) ==
    /\ pc[t] = "callback"
    /\ on_recording_callback # "none"
    /\ cb_log' = Append(cb_log, Len(audio_frames))
    /\ pc' = [pc EXCEPT ![t] = "while"]
    /\ UNCHANGED <<is_recording, recording_thread, audio_frames, start_time,
                   duration_limit, on_recording_callback, stop_requested,
                   streams, reads, now, caller, ret, saved, stopped, req_k>>
    /\ UNCHANGED pureVars

(***************************************************************************)
(* AudioProcessor.split_into_chunks                                        *)
(***************************************************************************)
Min(a, b) == IF a <= b THEN a ELSE b

\* a buffer of n samples; a sample is named by its position
Buffer(n) == [k \in 1..n |-> k]

\* the buffers, chunk durations and sample rates tried; 75 and 30 are the
\* 75-second buffer and 30-second default chunk of the specification's scenario
Lengths == (0..MaxSamples) \cup {75}
ChunkSeconds == (0..MaxChunkSeconds) \cup {30}
SampleRates == 1..MaxRate

\* the slice as it would be if its upper end were taken inclusive by mistake
SliceOneShort(a, lo, hi) == SubSeq(a, Min(lo, Len(a)) + 1, Min(hi - 1, Len(a)))

\* audio_data[lo:hi] for 0 <= lo <= hi
Slice(a, lo, hi) == SubSeq(a, Min(lo, Len(a)) + 1, Min(hi, Len(a)))

\* i in range(0, n, step), for the value i the loop has reached
InRange(i, n, step) == IF step > 0 THEN i < n ELSE i > n

SplitIdle ==
    /\ sp_audio = <<>>
    /\ sp_sr = 1
    /\ sp_secs = 1
    /\ sp_pc = "off"
    /\ sp_i = 0
    /\ sp_chunks = <<>>
    /\ sp_ret = <<>>

SplitInit ==
    /\ sp_audio \in {Buffer(n) : n \in Lengths}
    /\ sp_sr \in SampleRates
    /\ sp_secs \in ChunkSeconds
    /\ sp_pc = "call"
    /\ sp_i = 0
    /\ sp_chunks = <<>>
    /\ sp_ret = <<>>

\* chunk_size = chunk_duration_seconds * sr
chunk_size == sp_secs * sp_sr

\* range(0, len(audio_data), 0) raises ValueError: the except clause returns
\* [audio_data]
SplitRaises ==
    /\ sp_pc = "call"
    /\ chunk_size = 0
    /\ sp_ret' = <<sp_audio>>
    /\ sp_pc' = "returned"
    /\ UNCHANGED <<sp_audio, sp_sr, sp_secs, sp_i, sp_chunks>>
    /\ UNCHANGED <<recVars, mergeVars, trVars, restVars>>

\* chunks = []; the for loop starts at i = 0
SplitEnter ==
    /\ sp_pc = "call"
    /\ chunk_size # 0
    /\ sp_chunks' = <<>>
    /\ sp_i' = 0
    /\ sp_pc' = "loop"
    /\ UNCHANGED <<sp_audio, sp_sr, sp_secs, sp_ret>>
    /\ UNCHANGED <<recVars, mergeVars, trVars, restVars>>

\* one iteration: chunk = audio_data[i:i + chunk_size], kept if not empty
SplitStep ==
    /\ sp_pc = "loop"
    /\ InRange(sp_i, Len(sp_audio), chunk_size)
    /\ LET chunk == Slice(sp_audio, sp_i, sp_i + chunk_size)
       IN  sp_chunks' = IF Len(chunk) > 0
                        THEN Append(sp_chunks, chunk)
                        ELSE sp_chunks
    /\ sp_i' = sp_i + chunk_size
    /\ UNCHANGED <<sp_audio, sp_sr, sp_secs, sp_pc, sp_ret>>
    /\ UNCHANGED <<recVars, mergeVars, trVars, restVars>>

\* the return as it would be if an empty chunk list were replaced by the whole
\* input, as the except clause does
SplitReturnWhole ==
    /\ sp_pc = "loop"
    /\ ~InRange(sp_i, Len(sp_audio), chunk_size)
    /\ sp_ret' = IF sp_chunks = <<>> THEN <<sp_audio>> ELSE sp_chunks
    /\ sp_pc' = "returned"
    /\ UNCHANGED <<sp_audio, sp_sr, sp_secs, sp_i, sp_chunks>>
    /\ UNCHANGED <<recVars, mergeVars, trVars, restVars>>

\* the range is exhausted: return chunks
SplitReturn ==
    /\ sp_pc = "loop"
    /\ ~InRange(sp_i, Len(sp_audio), chunk_size)
    /\ sp_ret' = sp_chunks
    /\ sp_pc' = "returned"
    /\ UNCHANGED <<sp_audio, sp_sr, sp_secs, sp_i, sp_chunks>>
    /\ UNCHANGED <<recVars, mergeVars, trVars, restVars>>

(***************************************************************************)
(* WhisperClient.merge_transcription_results                               *)
(***************************************************************************)
\* a text is a sequence of characters; " " is the only whitespace used
Texts == {<<>>, <<"a">>, <<" ", "b">>}

Seg(s, e) == [start |-> s, end |-> e]

Word(w, s, e) == [word |-> w, start |-> s, end |-> e]

\* the chunk results tried: text, reported duration, segments and word timings,
\* times being relative to the chunk; a result without text has no segments
\* and no words (the remote recognizer still reports the duration of a silent
\* chunk, and a failed chunk has duration 0)
ChunkResults ==
    {r \in [text : Texts,
            duration : {0, 2},
            segments : {<<>>, <<Seg(0, 1)>>, <<Seg(0, 1), Seg(1, 2)>>},
            words : {<<>>, <<Word("w", 0, 1)>>}] :
        r.text = <<>> => (r.segments = <<>> /\ r.words = <<>>)}

ResultLists == UNION {[1..n -> ChunkResults] : n \in 0..MaxChunks}

\* merged_text = "", merged_segments = [], merged_words = [], total_duration = 0
EmptyAcc == [text |-> <<>>, segments |-> <<>>, words |-> <<>>, duration |-> 0]

\* segment.copy() with chunk_index set to i
SegmentCopy(segment, i) ==
    [f \in DOMAIN segment \cup {"chunk_index"} |->
        IF f = "chunk_index" THEN i ELSE segment[f]]

\* the body of the for loop as it would be without the separating space
MergeOneNoSeparator(acc, result, i) ==
    IF result.text # <<>>
    THEN [text |-> acc.text \o result.text,
          segments |-> acc.segments \o
                       [k \in 1..Len(result.segments) |->
                           SegmentCopy(result.segments[k], i)],
          words |-> acc.words \o result.words,
          duration |-> acc.duration + result.duration]
    ELSE acc

\* the body of the for loop for result number i (from 0)
MergeOne(acc, result, i) ==
    IF result.text # <<>>
    THEN [text |-> (IF acc.text # <<>> THEN acc.text \o <<" ">> ELSE acc.text)
                   \o result.text,
          segments |-> acc.segments \o
                       [k \in 1..Len(result.segments) |->
                           SegmentCopy(result.segments[k], i)],
          words |-> acc.words \o result.words,
          duration |-> acc.duration + result.duration]
    ELSE acc

RECURSIVE LStrip(_)
\* str.lstrip()
LStrip(t) == IF t # <<>> /\ Head(t) = " " THEN LStrip(Tail(t)) ELSE t

RECURSIVE RStrip(_)
\* str.rstrip()
RStrip(t) ==
    IF t # <<>> /\ t[Len(t)] = " " THEN RStrip(SubSeq(t, 1, Len(t) - 1)) ELSE t

\* str.strip()
Strip(t) == RStrip(LStrip(t))

MergeIdle ==
    /\ mg_results = <<>>
    /\ mg_pc = "off"
    /\ mg_i = 0
    /\ mg_acc = EmptyAcc
    /\ mg_ret = EmptyAcc

MergeInit ==
    /\ mg_results \in ResultLists
    /\ mg_pc = "loop"
    /\ mg_i = 0
    /\ mg_acc = EmptyAcc
    /\ mg_ret = EmptyAcc

\* the list passed in after iteration i, as it would be if chunk_index were
\* set on the segment itself and not on segment.copy()
ResultsAfterNoCopy(results, i) ==
    [j \in 1..Len(results) |->
        IF j = i + 1 /\ results[j].text # <<>>
        THEN [results[j] EXCEPT !.segments =
                 [k \in 1..Len(results[j].segments) |->
                     SegmentCopy(results[j].segments[k], i)]]
        ELSE results[j]]

\* the list passed in after iteration i: the loop reads result, writes only
\* to segment_copy and the merged_* locals, and shares the word entries
ResultsAfter(results, i) == results

\* one iteration of for i, result in enumerate(results)
MergeStep ==
    /\ mg_pc = "loop"
    /\ mg_i < Len(mg_results)
    /\ mg_acc' = MergeOne(mg_acc, mg_results[mg_i + 1], mg_i)
    /\ mg_results' = ResultsAfter(mg_results, mg_i)
    /\ mg_i' = mg_i + 1
    /\ UNCHANGED <<mg_pc, mg_ret>>
    /\ UNCHANGED <<recVars, splitVars, trVars, restVars>>

\* merged_result is built and returned
MergeReturn ==
    /\ mg_pc = "loop"
    /\ mg_i = Len(mg_results)
    /\ mg_ret' = [text |-> Strip(mg_acc.text),
                  duration |-> mg_acc.duration,
                  segments |-> mg_acc.segments,
                  words |-> mg_acc.words,
                  chunk_count |-> Len(mg_results)]
    /\ mg_pc' = "returned"
    /\ UNCHANGED <<mg_results, mg_i, mg_acc>>
    /\ UNCHANGED <<recVars, splitVars, trVars, restVars>>

(***************************************************************************)
(* WhisperClient: _initialize_clients, transcribe_file, transcribe_chunks, *)
(* MeetingTranscriber.transcribe_meeting                                   *)
(***************************************************************************)
\* self.openai_client after _initialize_clients: set only when not local-only,
\* an API key is configured and openai.OpenAI(...) did not raise
InitializeClients(local_only, api_key, client_ok) ==
    ~local_only /\ api_key /\ client_ok

Language == "ko"

\* what the remote API can answer, converted as _transcribe_with_openai_api does
ApiTranscripts ==
    {[text |-> <<"a">>, duration |-> 2, segments |-> <<Seg(0, 1)>>,
      words |-> <<Word("a", 0, 1)>>],
     [text |-> <<>>, duration |-> 0, segments |-> <<>>, words |-> <<>>]}

\* what self.model.transcribe can answer
ModelTranscripts ==
    {[text |-> <<"b">>,
      segments |-> <<[start |-> 0, end |-> 1,
                      words |-> <<Word("b", 0, 1)>>]>>],
     [text |-> <<"b">>, segments |-> <<[start |-> 0, end |-> 1]>>],
     [text |-> <<>>, segments |-> <<>>]}

RECURSIVE ExtractWords(_)
\* _extract_words_from_segments
ExtractWords(segments) ==
    IF segments = <<>> THEN <<>>
    ELSE (IF "words" \in DOMAIN Head(segments) THEN Head(segments).words
          ELSE <<>>) \o ExtractWords(Tail(segments))

\* the dictionary _transcribe_with_openai_api returns
OpenaiResult(transcript) ==
    [text |-> transcript.text, language |-> Language,
     duration |-> transcript.duration, segments |-> transcript.segments,
     words |-> transcript.words, method |-> "openai_api"]

\* the dictionary _transcribe_with_local_model returns
LocalResult(result) ==
    [text |-> result.text, language |-> Language,
     duration |-> Len(result.segments) * 10, segments |-> result.segments,
     words |-> ExtractWords(result.segments), method |-> "local_model"]

\* result["chunk_index"] = i; result["chunk_path"] = chunk_path
WithChunk(result, i) ==
    [f \in DOMAIN result \cup {"chunk_index", "chunk_path"} |->
        IF f \in {"chunk_index", "chunk_path"} THEN i ELSE result[f]]

\* the failed entry as it would be if the error message were stored as its text
FailedResultErrorAsText(i, e) ==
    [text |-> <<e>>, language |-> Language, duration |-> 0, segments |-> <<>>,
     words |-> <<>>, method |-> "failed", chunk_index |-> i, chunk_path |-> i,
     error |-> e]

\* the entry transcribe_chunks appends for a chunk whose recognition raised e
FailedResult(i, e) ==
    [text |-> <<>>, language |-> Language, duration |-> 0, segments |-> <<>>,
     words |-> <<>>, method |-> "failed", chunk_index |-> i, chunk_path |-> i,
     error |-> e]

\* result.update({... "meeting_type": "full_meeting" ...}) in transcribe_meeting
WithMeeting(result) ==
    [f \in DOMAIN result \cup {"meeting_type"} |->
        IF f = "meeting_type" THEN "full_meeting" ELSE result[f]]

\* a call to an engine for chunk i, its outcome ("ok" or "error") and what it
\* returned or raised
Call(i, engine, outcome, out) ==
    [chunk |-> i, engine |-> engine, outcome |-> outcome, out |-> out]

NoRun == <<>>

\* the methods that go through the loop of transcribe_chunks
ChunkModes == {"chunks", "meeting_chunks"}

\* when the request is made a second time the engines answer each call as they
\* answered it the first time
Replays(call) ==
    tr_prev # NoRun =>
        \E k \in 1..Len(tr_prev.calls) : tr_prev.calls[k] = call

TrIdle ==
    /\ tr_local_only = FALSE
    /\ tr_client = FALSE
    /\ tr_mode = "file"
    /\ tr_n = 0
    /\ tr_pc = "off"
    /\ tr_i = 0
    /\ tr_stage = "none"
    /\ tr_results = <<>>
    /\ tr_calls = <<>>
    /\ tr_ret = <<>>
    /\ tr_prev = NoRun

\* a client in each configuration, and one request made of it
TrInit ==
    /\ tr_local_only \in BOOLEAN
    /\ \E api_key \in BOOLEAN, client_ok \in BOOLEAN :
            tr_client = InitializeClients(tr_local_only, api_key, client_ok)
    /\ tr_mode \in {"chunks", "file", "meeting", "meeting_chunks"}
    /\ tr_n \in (IF tr_mode \in ChunkModes THEN 0..MaxChunks ELSE {1})
    /\ tr_pc = "run"
    /\ tr_i = 0
    /\ tr_stage = "enter"
    /\ tr_results = <<>>
    /\ tr_calls = <<>>
    /\ tr_ret = <<>>
    /\ tr_prev = NoRun

\* transcribe_file returns result to the method that called it
FileReturns(result) ==
    IF tr_mode \in ChunkModes
    THEN /\ tr_results' = Append(tr_results, WithChunk(result, tr_i))
         /\ tr_i' = tr_i + 1
         /\ tr_stage' = "enter"
         /\ UNCHANGED <<tr_pc, tr_ret>>
    ELSE /\ tr_ret' = (IF tr_mode = "meeting" THEN WithMeeting(result)
                       ELSE result)
         /\ tr_pc' = "returned"
         /\ tr_stage' = "none"
         /\ UNCHANGED <<tr_results, tr_i>>

\* transcribe_file raises e to the method that called it: transcribe_chunks
\* catches it and appends the failed entry, the other methods raise it on
FileRaises(e) ==
    IF tr_mode \in ChunkModes
    THEN /\ tr_results' = Append(tr_results, FailedResult(tr_i, e))
         /\ tr_i' = tr_i + 1
         /\ tr_stage' = "enter"
         /\ UNCHANGED <<tr_pc, tr_ret>>
    ELSE /\ tr_ret' = e
         /\ tr_pc' = "raised"
         /\ tr_stage' = "none"
         /\ UNCHANGED <<tr_results, tr_i>>

\* the entry of transcribe_file as it would be if it tested local_only alone
TranscribeFileEnterIgnoresClient ==
    /\ tr_pc = "run"
    /\ tr_stage = "enter"
    /\ tr_mode \in ChunkModes => tr_i < tr_n
    /\ tr_stage' = IF tr_local_only THEN "local" ELSE "remote"
    /\ UNCHANGED <<tr_local_only, tr_client, tr_mode, tr_n, tr_pc, tr_i,
                   tr_results, tr_calls, tr_ret, tr_prev>>
    /\ UNCHANGED <<recVars, splitVars, mergeVars, restVars>>

\* transcribe_file is entered (for chunk tr_i in transcribe_chunks) and
\* chooses its engine
TranscribeFileEnter ==
    /\ tr_pc = "run"
    /\ tr_stage = "enter"
    /\ tr_mode \in ChunkModes => tr_i < tr_n
    /\ tr_stage' = IF tr_local_only \/ ~tr_client THEN "local" ELSE "remote"
    /\ UNCHANGED <<tr_local_only, tr_client, tr_mode, tr_n, tr_pc, tr_i,
                   tr_results, tr_calls, tr_ret, tr_prev>>
    /\ UNCHANGED <<recVars, splitVars, mergeVars, restVars>>

\* _transcribe_with_openai_api returns
OpenaiApiReturns ==
    /\ tr_stage = "remote"
    /\ \E transcript \in ApiTranscripts :
            /\ Replays(Call(tr_i, "openai_api", "ok", transcript))
            /\ tr_calls' = Append(tr_calls,
                                  Call(tr_i, "openai_api", "ok", transcript))
            /\ FileReturns(OpenaiResult(transcript))
    /\ UNCHANGED <<tr_local_only, tr_client, tr_mode, tr_n, tr_prev>>
    /\ UNCHANGED <<recVars, splitVars, mergeVars, restVars>>

\* _transcribe_with_openai_api raising as it would be if the handler dropped
\* the client after a failure
OpenaiApiRaisesDropsClient ==
    /\ tr_stage = "remote"
    /\ Replays(Call(tr_i, "openai_api", "error", "api_error"))
    /\ tr_calls' = Append(tr_calls,
                          Call(tr_i, "openai_api", "error", "api_error"))
    /\ tr_stage' = "local"
    /\ tr_client' = FALSE
    /\ UNCHANGED <<tr_local_only, tr_mode, tr_n, tr_pc, tr_i,
                   tr_results, tr_ret, tr_prev>>
    /\ UNCHANGED <<recVars, splitVars, mergeVars, restVars>>

\* _transcribe_with_openai_api raises: the handler of lines 82-84 goes on to
\* the local model
OpenaiApiRaises ==
    /\ tr_stage = "remote"
    /\ Replays(Call(tr_i, "openai_api", "error", "api_error"))
    /\ tr_calls' = Append(tr_calls,
                          Call(tr_i, "openai_api", "error", "api_error"))
    /\ tr_stage' = "local"
    /\ UNCHANGED <<tr_local_only, tr_client, tr_mode, tr_n, tr_pc, tr_i,
                   tr_results, tr_ret, tr_prev>>
    /\ UNCHANGED <<recVars, splitVars, mergeVars, restVars>>

\* _transcribe_with_local_model returns
LocalModelReturns ==
    /\ tr_stage = "local"
    /\ \E result \in ModelTranscripts :
            /\ Replays(Call(tr_i, "local_model", "ok", result))
            /\ tr_calls' = Append(tr_calls,
                                  Call(tr_i, "local_model", "ok", result))
            /\ FileReturns(LocalResult(result))
    /\ UNCHANGED <<tr_local_only, tr_client, tr_mode, tr_n, tr_prev>>
    /\ UNCHANGED <<recVars, splitVars, mergeVars, restVars>>

\* _transcribe_with_local_model raising as it would be if transcribe_chunks
\* skipped a chunk that failed instead of appending an entry for it
LocalModelRaisesSkipsChunk ==
    /\ tr_stage = "local"
    /\ Replays(Call(tr_i, "local_model", "error", "local_error"))
    /\ tr_calls' = Append(tr_calls,
                          Call(tr_i, "local_model", "error", "local_error"))
    /\ IF tr_mode \in ChunkModes
       THEN /\ tr_i' = tr_i + 1
            /\ tr_stage' = "enter"
            /\ UNCHANGED <<tr_results, tr_pc, tr_ret>>
       ELSE FileRaises("local_error")
    /\ UNCHANGED <<tr_local_only, tr_client, tr_mode, tr_n, tr_prev>>
    /\ UNCHANGED <<recVars, splitVars, mergeVars, restVars>>

\* _transcribe_with_local_model raises: transcribe_file logs and re-raises
LocalModelRaises ==
    /\ tr_stage = "local"
    /\ Replays(Call(tr_i, "local_model", "error", "local_error"))
    /\ tr_calls' = Append(tr_calls,
                          Call(tr_i, "local_model", "error", "local_error"))
    /\ FileRaises("local_error")
    /\ UNCHANGED <<tr_local_only, tr_client, tr_mode, tr_n, tr_prev>>
    /\ UNCHANGED <<recVars, splitVars, mergeVars, restVars>>

\* the loop of transcribe_chunks is over: return results
TranscribeChunksReturn ==
    /\ tr_pc = "run"
    /\ tr_mode = "chunks"
    /\ tr_stage = "enter"
    /\ tr_i = tr_n
    /\ tr_ret' = tr_results
    /\ tr_pc' = "returned"
    /\ tr_stage' = "none"
    /\ UNCHANGED <<tr_local_only, tr_client, tr_mode, tr_n, tr_i, tr_results,
                   tr_calls, tr_prev>>
    /\ UNCHANGED <<recVars, splitVars, mergeVars, restVars>>

(***************************************************************************)
(* MeetingTranscriber.transcribe_meeting_chunks                            *)
(***************************************************************************)
\* merged_result.update({... "meeting_type": "chunked_meeting" ...,
\* "chunk_results": chunk_results})
WithMeetingChunks(merged_result, chunk_results) ==
    [f \in DOMAIN merged_result \cup {"meeting_type", "chunk_results"} |->
        IF f = "meeting_type" THEN "chunked_meeting"
        ELSE IF f = "chunk_results" THEN chunk_results
        ELSE merged_result[f]]

\* transcribe_chunks has returned chunk_results; merge_transcription_results
\* is called with them
MeetingChunksMerge ==
    /\ tr_pc = "run"
    /\ tr_mode = "meeting_chunks"
    /\ tr_stage = "enter"
    /\ tr_i = tr_n
    /\ tr_stage' = "merge"
    /\ mg_results' = tr_results
    /\ mg_pc' = "loop"
    /\ mg_i' = 0
    /\ mg_acc' = EmptyAcc
    /\ mg_ret' = EmptyAcc
    /\ UNCHANGED <<tr_local_only, tr_client, tr_mode, tr_n, tr_pc, tr_i,
                   tr_results, tr_calls, tr_ret, tr_prev>>
    /\ UNCHANGED <<recVars, splitVars, restVars>>

\* the merge has returned: the meeting fields are added and the merged result
\* is returned
MeetingChunksReturn ==
    /\ tr_pc = "run"
    /\ tr_stage = "merge"
    /\ mg_pc = "returned"
    /\ tr_ret' = WithMeetingChunks(mg_ret, tr_results)
    /\ tr_pc' = "returned"
    /\ tr_stage' = "none"
    /\ UNCHANGED <<tr_local_only, tr_client, tr_mode, tr_n, tr_i, tr_results,
                   tr_calls, tr_prev>>
    /\ UNCHANGED <<recVars, splitVars, mergeVars, restVars>>

\* the caller calls transcribe_meeting_chunks on the same transcriber with the
\* same list once more
MeetingChunksAgain ==
    /\ tr_pc = "returned"
    /\ tr_mode = "meeting_chunks"
    /\ tr_prev = NoRun
    /\ tr_prev' = [calls |-> tr_calls, ret |-> tr_ret]
    /\ tr_pc' = "run"
    /\ tr_i' = 0
    /\ tr_stage' = "enter"
    /\ tr_results' = <<>>
    /\ tr_calls' = <<>>
    /\ tr_ret' = <<>>
    /\ UNCHANGED <<tr_local_only, tr_client, tr_mode, tr_n>>
    /\ UNCHANGED <<recVars, splitVars, mergeVars, restVars>>

(***************************************************************************)
(* AudioProcessor.enhance_audio and its three stages                       *)
(***************************************************************************)
\* the sample values and the buffers handed to enhance_audio; 0 is silence
Samples == (-1)..MaxAmplitude
EnhanceBuffers == UNION {[1..n -> Samples] : n \in 0..MaxEnhanceSamples}

\* sr arguments: 0 makes the division in trim_silence's log line raise
EnhanceRates == {0, 1}

Abs(x) == IF x < 0 THEN -x ELSE x

RECURSIVE SumSq(_)
SumSq(a) == IF a = <<>> THEN 0 ELSE a[1] * a[1] + SumSq(Tail(a))

\* the integer part of the square root
ISqrt(v) == CHOOSE r \in 0..v : r * r <= v /\ v < (r + 1) * (r + 1)

\* the level 0.1 of normalize_audio, in the hundredths the result is kept in
Level == 10

\* audio_data / rms * 0.1 with rms = sqrt(mean(audio_data**2)), in hundredths
\* and rounded toward zero
Normalized(a) ==
    [k \in 1..Len(a) |->
        LET q == ISqrt((a[k] * a[k] * Level * Level * Len(a)) \div SumSq(a))
        IN  IF a[k] < 0 THEN -q ELSE q]

\* librosa.effects.trim(audio_data, top_db=20), a frame being one sample: the
\* samples within 20 dB of the peak are kept with all that lies between them
Peak(a) == IF a = <<>> THEN 0
           ELSE CHOOSE m \in {Abs(a[k]) : k \in 1..Len(a)} :
                    \A k \in 1..Len(a) : Abs(a[k]) <= m
NonSilent(a) == {k \in 1..Len(a) : Abs(a[k]) > 0 /\ 10 * Abs(a[k]) > Peak(a)}
Trimmed(a) ==
    IF NonSilent(a) = {} THEN <<>>
    ELSE LET lo == CHOOSE k \in NonSilent(a) : \A j \in NonSilent(a) : k <= j
             hi == CHOOSE k \in NonSilent(a) : \A j \in NonSilent(a) : j <= k
         IN  SubSeq(a, lo, hi)

\* one stage call: what it was given, what it returned, whether its body raised
StageCall(stage, in, out, failed) ==
    [stage |-> stage, in |-> in, out |-> out, failed |-> failed]

EnhanceIdle ==
    /\ en_audio = <<>>
    /\ en_sr = 1
    /\ en_pc = "off"
    /\ en_enhanced = <<>>
    /\ en_stages = <<>>
    /\ en_ret = <<>>

EnhanceInit ==
    /\ en_audio \in EnhanceBuffers
    /\ en_sr \in EnhanceRates
    /\ en_pc = "reduce_noise"
    /\ en_enhanced = <<>>
    /\ en_stages = <<>>
    /\ en_ret = <<>>

\* the stage returns `out` and enhance_audio assigns it to enhanced
StageDone(stage, in, out, failed, next) ==
    /\ en_enhanced' = out
    /\ en_stages' = Append(en_stages, StageCall(stage, in, out, failed))
    /\ en_pc' = next
    /\ UNCHANGED <<en_audio, en_sr, en_ret>>
    /\ UNCHANGED <<recVars, splitVars, mergeVars, trVars, cmdVars>>

\* enhanced = self.reduce_noise(audio_data, sr), nr.reduce_noise returning a
\* buffer of the same length
ReduceNoiseReturns ==
    /\ en_pc = "reduce_noise"
    /\ \E out \in [1..Len(en_audio) -> Samples] :
           StageDone("reduce_noise", en_audio, out, FALSE, "normalize_audio")

\* nr.reduce_noise raises: the except clause returns audio_data
ReduceNoiseRaises ==
    /\ en_pc = "reduce_noise"
    /\ StageDone("reduce_noise", en_audio, en_audio, TRUE, "normalize_audio")

\* enhanced = self.normalize_audio(enhanced): scaled when rms > 0, which an
\* empty buffer (mean of nothing is nan) and a silent one do not give
NormalizeAudioReturns ==
    /\ en_pc = "normalize_audio"
    /\ StageDone("normalize_audio", en_enhanced,
                 IF SumSq(en_enhanced) > 0 THEN Normalized(en_enhanced)
                                           ELSE en_enhanced,
                 FALSE, "trim_silence")

\* the body of normalize_audio raises, the except clause giving back the
\* buffer enhance_audio was called with
NormalizeAudioRaisesReturnsOriginal ==
    /\ en_pc = "normalize_audio"
    /\ StageDone("normalize_audio", en_enhanced, en_audio, TRUE, "trim_silence")

\* the body of normalize_audio raises: the except clause returns audio_data,
\* the stage's own argument
NormalizeAudioRaises ==
    /\ en_pc = "normalize_audio"
    /\ StageDone("normalize_audio", en_enhanced, en_enhanced, TRUE,
                 "trim_silence")

\* enhanced = self.trim_silence(enhanced, sr); the log line divides by sr
TrimSilenceReturns ==
    /\ en_pc = "trim_silence"
    /\ en_sr # 0
    /\ StageDone("trim_silence", en_enhanced, Trimmed(en_enhanced), FALSE, "log")

\* librosa.effects.trim raises, or the log line does because sr is 0: the
\* except clause returns audio_data
TrimSilenceRaises ==
    /\ en_pc = "trim_silence"
    /\ StageDone("trim_silence", en_enhanced, en_enhanced, TRUE, "log")

\* return enhanced; the except clause of enhance_audio itself is never
\* entered, every stage catching what its body raises
EnhanceReturn ==
    /\ en_pc = "log"
    /\ en_pc' = "returned"
    /\ en_ret' = en_enhanced
    /\ UNCHANGED <<en_audio, en_sr, en_enhanced, en_stages>>
    /\ UNCHANGED <<recVars, splitVars, mergeVars, trVars, cmdVars>>

(***************************************************************************)
(* The pipeline commands of main.py, from the splitter's output to the     *)
(* end of recognition                                                      *)
(***************************************************************************)
\* a file path: its directory and its name, the name a sequence of parts
FilePath(parent, name) == [parent |-> parent, name |-> name]

\* Path(s) for a string s without a directory part
BarePath(name) == FilePath(".", name)

\* f"chunk_{i}.wav"
ChunkName(i) == <<"chunk_", i, ".wav">>

\* the audio files a command is run on, one of them named as a chunk is
AudioFiles == {FilePath("recordings", <<"meeting", ".wav">>),
               BarePath(ChunkName(0))}

\* the numbers of chunks the splitter may have returned
ChunkCounts == 0..(MaxChunks + 1)

\* _save_processed_audio: parent / f"processed_{name}" (sf.write is taken not
\* to raise)
SaveProcessedAudio(original_path) ==
    FilePath(original_path.parent, <<"processed_">> \o original_path.name)

\* _save_processed_audio(chunk, config.audio.sample_rate, f"chunk_{i}.wav")
ChunkFile(i) == SaveProcessedAudio(BarePath(ChunkName(i)))

\* the test of the commands as it would be with >= in place of >
UseChunksFromOne(n) == n >= 1

\* if len(chunks) > 1
UseChunks(n) == n > 1

CommandIdle ==
    /\ cmd_pc = "off"
    /\ cmd_audio_file = BarePath(<<>>)
    /\ cmd_processed_file = BarePath(<<>>)
    /\ cmd_chunks = 0
    /\ cmd_paths = <<>>

\* process_meeting_audio has returned (processed_file, chunks)
CommandInit ==
    /\ cmd_pc = "processed"
    /\ cmd_audio_file \in AudioFiles
    /\ cmd_processed_file = SaveProcessedAudio(cmd_audio_file)
    /\ cmd_chunks \in ChunkCounts
    /\ cmd_paths = <<>>

\* transcriber = MeetingTranscriber(), then the choice of the request: the
\* chunk files are saved and transcribe_meeting_chunks is called with their
\* paths, or transcribe_meeting is called with processed_file
CommandRecognize ==
    /\ cmd_pc = "processed"
    /\ cmd_pc' = "recognize"
    /\ tr_local_only' \in BOOLEAN
    /\ \E api_key \in BOOLEAN, client_ok \in BOOLEAN :
            tr_client' = InitializeClients(tr_local_only', api_key, client_ok)
    /\ IF UseChunks(cmd_chunks)
       THEN /\ cmd_paths' = [k \in 1..cmd_chunks |-> ChunkFile(k - 1)]
            /\ tr_mode' = "meeting_chunks"
            /\ tr_n' = cmd_chunks
       ELSE /\ cmd_paths' = <<cmd_processed_file>>
            /\ tr_mode' = "meeting"
            /\ tr_n' = 1
    /\ tr_pc' = "run"
    /\ tr_i' = 0
    /\ tr_stage' = "enter"
    /\ UNCHANGED <<tr_results, tr_calls, tr_ret, tr_prev>>
    /\ UNCHANGED <<cmd_audio_file, cmd_processed_file, cmd_chunks>>
    /\ UNCHANGED <<recVars, splitVars, mergeVars, enVars>>

\* the request returned: the command goes on to format the result
CommandGoesOn ==
    /\ cmd_pc = "recognize"
    /\ tr_pc = "returned"
    /\ cmd_pc' = "formatting"
    /\ UNCHANGED <<cmd_audio_file, cmd_processed_file, cmd_chunks, cmd_paths>>
    /\ UNCHANGED <<recVars, splitVars, mergeVars, trVars, enVars>>

\* the request raised: the except clause of the command prints the error and
\* the command ends
CommandAborts ==
    /\ cmd_pc = "recognize"
    /\ tr_pc = "raised"
    /\ cmd_pc' = "aborted"
    /\ UNCHANGED <<cmd_audio_file, cmd_processed_file, cmd_chunks, cmd_paths>>
    /\ UNCHANGED <<recVars, splitVars, mergeVars, trVars, enVars>>

(***************************************************************************)
(* The specifications.                                                     *)
(***************************************************************************)
\* the recorder, its caller and its capture threads
Init ==
    RecInit /\ SplitIdle /\ MergeIdle /\ TrIdle /\ EnhanceIdle /\ CommandIdle

Next ==
    \/ \E d \in DurationArgs, cb \in CallbackArgs : StartRecording(d, cb)
    \/ \E d \in DurationArgs : StartMeetingRecording(d)
    \/ StopRecordingBegin
    \/ StopRecordingJoined
    \/ StopRecordingJoinTimeout
    \/ RequestStop
    \/ \E t \in Threads : OpenStream(t)
    \/ \E t \in Threads : OpenFails(t)
    \/ \E t \in Threads : LoopExits(t)
    \/ \E t \in Threads : LimitEnds(t)
    \/ \E t \in Threads : LoopContinues(t)
    \/ \E t \in Threads : ReadFrame(t)
    \/ \E t \in Threads : ReadFails(t)
    \/ \E t \in Threads : Callback(t)
    \/ \E t \in Threads : CallbackRaises(t)

Spec == Init /\ [][Next]_vars

\* the recorder with the one progress guarantee the code gives: a pending
\* join(timeout=5.0) returns, because the thread has ended or because the five
\* seconds are over; nothing is assumed of the capture threads, whose
\* audio.open and stream.read may block for ever
SpecLive == Spec /\ WF_vars(StopRecordingJoined \/ StopRecordingJoinTimeout)

\* a step of capture thread t
ThreadStep(t) ==
    \/ OpenStream(t)
    \/ OpenFails(t)
    \/ LoopExits(t)
    \/ LimitEnds(t)
    \/ LoopContinues(t)
    \/ ReadFrame(t)
    \/ ReadFails(t)
    \/ Callback(t)
    \/ CallbackRaises(t)

\* the recorder when the device answers: every started capture thread is
\* scheduled, and its audio.open and each stream.read return or raise (once
\* MaxReads frames have been read, the read raises); nothing is assumed of the
\* caller, which may go on polling is_recording for ever
SpecPoll == Spec /\ \A t \in Threads : WF_vars(ThreadStep(t))

\* split_into_chunks called on every bounded buffer, duration and rate
InitSplit ==
    RecInit /\ SplitInit /\ MergeIdle /\ TrIdle /\ EnhanceIdle /\ CommandIdle

NextSplit ==
    \/ SplitRaises
    \/ SplitEnter
    \/ SplitStep
    \/ SplitReturn

SpecSplit == InitSplit /\ [][NextSplit]_vars

\* merge_transcription_results called on every bounded list of chunk results
InitMerge ==
    RecInit /\ SplitIdle /\ MergeInit /\ TrIdle /\ EnhanceIdle /\ CommandIdle

NextMerge ==
    \/ MergeStep
    \/ MergeReturn

SpecMerge == InitMerge /\ [][NextMerge]_vars

\* one recognition request (transcribe_chunks, transcribe_file,
\* transcribe_meeting or transcribe_meeting_chunks, the last one possibly made
\* twice) made of a client in each configuration, each call to an engine
\* returning or raising
InitTranscribe ==
    RecInit /\ SplitIdle /\ MergeIdle /\ TrInit /\ EnhanceIdle /\ CommandIdle

NextTranscribe ==
    \/ TranscribeFileEnter
    \/ OpenaiApiReturns
    \/ OpenaiApiRaises
    \/ LocalModelReturns
    \/ LocalModelRaises
    \/ TranscribeChunksReturn
    \/ MeetingChunksMerge
    \/ MergeStep
    \/ MergeReturn
    \/ MeetingChunksReturn
    \/ MeetingChunksAgain

SpecTranscribe == InitTranscribe /\ [][NextTranscribe]_vars

\* enhance_audio called on every bounded buffer and rate, each stage
\* returning or raising
InitEnhance ==
    RecInit /\ SplitIdle /\ MergeIdle /\ TrIdle /\ EnhanceInit /\ CommandIdle

NextEnhance ==
    \/ ReduceNoiseReturns
    \/ ReduceNoiseRaises
    \/ NormalizeAudioReturns
    \/ NormalizeAudioRaises
    \/ TrimSilenceReturns
    \/ TrimSilenceRaises
    \/ EnhanceReturn

SpecEnhance == InitEnhance /\ [][NextEnhance]_vars

\* a pipeline command from the return of process_meeting_audio on, for every
\* number of chunks and every configuration of the recognizers, each call to
\* an engine returning or raising
InitCommand ==
    RecInit /\ SplitIdle /\ MergeIdle /\ TrIdle /\ EnhanceIdle /\ CommandInit

NextCommand ==
    \/ CommandRecognize
    \/ TranscribeFileEnter
    \/ OpenaiApiReturns
    \/ OpenaiApiRaises
    \/ LocalModelReturns
    \/ LocalModelRaises
    \/ MeetingChunksMerge
    \/ MergeStep
    \/ MergeReturn
    \/ MeetingChunksReturn
    \/ CommandGoesOn
    \/ CommandAborts

SpecCommand == InitCommand /\ [][NextCommand]_vars

(***************************************************************************)
(* The session state of spec section 4.1, read off the recorder.           *)
(***************************************************************************)
SessionState ==
    IF is_recording THEN "Recording"
    ELSE IF stopped THEN "Idle"
    ELSE "Stopping"

\* the positions of _record_audio inside the while loop
LoopPcs == {"while", "read", "callback"}

InLoop == {t \in Threads : pc[t] \in LoopPcs}

\* a step of start_recording, called directly or through start_meeting_recording
StartCall ==
    \/ \E d \in DurationArgs, cb \in CallbackArgs : StartRecording(d, cb)
    \/ \E d \in DurationArgs : StartMeetingRecording(d)

(***************************************************************************)
(* Claims about the recorder (checked under Spec, C16 under SpecLive).     *)
(***************************************************************************)

\* C6: at most one capture thread is inside the _record_audio read loop at
\* any time, under every interleaving of start_recording, request_stop,
\* stop_recording and the threads' steps.
C6_OneThreadInLoop == Cardinality(InLoop) <= 1

\* C7: start_recording succeeds only when the session is Idle; it is rejected
\* while Recording and while Stopping (capture ended, stop_recording not yet
\* returned), so a start never discards the frames of a finished capture.
C7_StartOnlyFromIdle ==
    [][(StartCall /\ ret'.val = "true") => SessionState = "Idle"]_vars

\* C8: start_recording called while is_recording is true returns false and
\* leaves the frame store, start time, duration limit, progress callback and
\* capture thread unchanged.
C8_RejectedStartNoEffect ==
    [][(StartCall /\ is_recording) =>
            /\ ret' = Ret("start_recording", "false", -1)
            /\ UNCHANGED <<audio_frames, start_time, duration_limit,
                           on_recording_callback, recording_thread, pc,
                           is_recording>>]_vars

\* C8 witness: a start_recording was rejected during an active capture.
C8_Witness ==
    /\ ret = Ret("start_recording", "false", -1)
    /\ is_recording
    /\ InLoop # {}

\* C9: request_stop is idempotent (the state a request_stop leaves is left
\* unchanged by another request_stop), and called while no capture is active
\* it changes neither is_recording, the frame store nor the thread.
C9_RequestStopIdempotent ==
    [][RequestStop =>
            /\ AfterRequestStop(StopFields') = StopFields'
            /\ (~is_recording =>
                    UNCHANGED <<is_recording, audio_frames, recording_thread,
                                pc>>)]_vars

\* C9 witness: request_stop has acted on an active capture, whose thread is
\* still in its loop.
C9_Witness ==
    /\ stop_requested
    /\ req_k >= 0
    /\ ~is_recording
    /\ InLoop # {}

\* C10: after request_stop during a recording with k frames buffered, at most
\* one more frame is appended, and the following stop_recording returns a path
\* to a file of k or k+1 frames.
C10_StopWithinOneFrame ==
    /\ req_k >= 0 => Len(audio_frames) <= req_k + 1
    /\ (ret.op = "stop_recording" /\ ret.k >= 0) =>
            /\ ret.val = "path"
            /\ Len(saved) \in {ret.k, ret.k + 1}

\* a step in which stop_recording returns to its caller
StopReturns ==
    \/ StopRecordingBegin /\ ~is_recording /\ audio_frames = <<>>
    \/ StopRecordingJoined
    \/ StopRecordingJoinTimeout

\* frames are named by the number of the device read that produced them: f
\* holds consecutive reads, one each, in the order read, up to the last one
ConsecutiveReads(f) ==
    f # <<>> => /\ \A i \in 1..Len(f) : f[i] = f[1] + i - 1
                /\ f[Len(f)] = reads

C12_SoleWriter ==
    [][(is_recording /\ audio_frames' # audio_frames) =>
            /\ recording_thread \in Threads
            /\ ReadFrame(recording_thread)
            /\ SubSeq(audio_frames', 1, Len(audio_frames)) = audio_frames]_vars

\* thread t ended in the except clause after its stream was opened, that is
\* by an error of stream.read (the stream it opened was never closed)
ReadFailed(t) == t \in Threads /\ pc[t] = "failed" /\ t \in streams

\* C13: a device read error ends the capture (is_recording false, the thread
\* ended, nothing raised to the caller) and leaves the buffered frames as they
\* are; from then on the frame store stays as it was at the error, and the
\* following stop_recording returns a path for exactly those frames when
\* there is at least one.
C13_ReadErrorKeepsFrames ==
    [][/\ \A t \in Threads : ReadFails(t) =>
                /\ is_recording' = FALSE
                /\ pc'[t] \in Ended
                /\ UNCHANGED <<audio_frames, caller, ret>>
       /\ (ReadFailed(recording_thread) /\ ~StartCall) =>
                /\ audio_frames' = audio_frames
                /\ StopReturns =>
                        /\ ret'.val = (IF audio_frames # <<>> THEN "path"
                                       ELSE "none")
                        /\ ret'.val = "path" => saved' = audio_frames]_vars

\* thread t ended in the except clause before it had a stream, that is by an
\* error of audio.open
OpenFailed(t) == t \in Threads /\ pc[t] = "failed" /\ t \notin streams

\* C14: when the session's capture thread could not open the device,
\* is_recording is false, the thread takes no further step (the open is not
\* retried) and only a start_recording makes a new thread, and the session's
\* stop_recording returns none with zero frames.
C14_OpenFailureIsDefinite ==
    /\ [](OpenFailed(recording_thread) => ~is_recording)
    /\ [][/\ \A t \in Threads : OpenFailed(t) => pc'[t] = pc[t]
          /\ recording_thread' # recording_thread => StartCall
          /\ (OpenFailed(recording_thread) /\ StopReturns) =>
                    /\ ret'.val = "none"
                    /\ audio_frames' = <<>>]_vars

\* C15: every input stream opened is closed by the time stop_recording
\* returns, however the capture ended, and at no time are two input streams
\* of the recorder open at once.
C15_StreamsReleased ==
    /\ [](Cardinality(streams) <= 1)
    /\ [][StopReturns => streams' = {}]_vars

\* C16: stop_recording always returns: a stop_recording that waits for the
\* capture thread eventually returns to its caller; while it waits
\* is_recording is false and its return is enabled whatever the thread does,
\* and when the wait expires with the thread still running (for instance
\* blocked in a device read) it returns with is_recording false, having
\* written the frames that exist at that moment.
C16_StopAlwaysReturns ==
    /\ (caller = "join") ~> (caller = "idle" /\ ret.op = "stop_recording")
    /\ [](caller = "join" =>
                /\ ~is_recording
                /\ ENABLED (StopRecordingJoined \/ StopRecordingJoinTimeout))
    /\ [][StopRecordingJoinTimeout =>
                /\ caller' = "idle"
                /\ ~is_recording'
                /\ ret'.op = "stop_recording"
                /\ audio_frames # <<>> =>
                        /\ ret'.val = "path"
                        /\ saved' = audio_frames]_vars

\* C16 witness: stop_recording has returned a file of one frame while the
\* capture thread is still blocked in stream.read.
C16_Witness ==
    /\ caller = "idle"
    /\ ret.op = "stop_recording"
    /\ ret.val = "path"
    /\ Len(saved) = 1
    /\ recording_thread = 1
    /\ pc[1] = "read"
    /\ audio_frames = saved

\* C17: whenever a capture thread passes the loop test (is_recording true)
\* and the time elapsed since start_time, read off the clock at that
\* iteration, is at least duration_limit, the thread sets is_recording false
\* and ends without another read and without a request_stop; a thread goes on
\* to a read only at an iteration where the elapsed time is below the limit.
C17_CeilingEndsCapture ==
    [][\A t \in Threads :
         (pc[t] = "while" /\ is_recording /\ pc'[t] # pc[t]) =>
            IF now' - start_time >= duration_limit
            THEN /\ ~is_recording'
                 /\ pc'[t] = "done"
                 /\ UNCHANGED <<audio_frames, reads, stop_requested>>
            ELSE /\ pc'[t] = "read"
                 /\ UNCHANGED <<is_recording, audio_frames, reads>>]_vars

\* C17 witness: the first session's capture ended at the ceiling with one frame
\* stored, without request_stop or stop_recording having been called.
C17_Witness ==
    /\ recording_thread = 1
    /\ pc[1] = "done"
    /\ ~is_recording
    /\ ~stop_requested
    /\ ~stopped
    /\ caller = "idle"
    /\ now - start_time >= duration_limit
    /\ Len(audio_frames) = 1

\* C18: stop_recording called with is_recording false and an empty frame
\* store returns none and changes nothing: no file is written, no thread is
\* joined, and is_recording, the frame store, the start time and the other
\* fields of the recorder are unchanged.
C18_IdleStopIsNoOp ==
    [][(StopRecordingBegin /\ ~is_recording /\ audio_frames = <<>>) =>
            /\ ret'.op = "stop_recording"
            /\ ret'.val = "none"
            /\ UNCHANGED <<is_recording, audio_frames, start_time, saved,
                           caller, recording_thread, pc, streams,
                           duration_limit, on_recording_callback,
                           stop_requested>>]_vars

\* C18 witness: stop_recording has returned none on a recorder that never
\* recorded.
C18_Witness ==
    /\ recording_thread = NoThread
    /\ ret.op = "stop_recording"
    /\ ret.val = "none"
    /\ caller = "idle"
    /\ ~is_recording
    /\ audio_frames = <<>>

\* a stop_recording of a session has returned and no start_recording has
\* succeeded since
AfterStop == stopped /\ caller = "idle" /\ recording_thread # NoThread

\* C26: once stop_recording has returned, with a path or with none, the frame
\* store is not modified until the next successful start_recording: no capture
\* thread appends after the return, whether stop_recording returned none
\* without joining (request_stop before the first frame) or its bounded join
\* timed out.
C26_NoAppendAfterStop ==
    [][(AfterStop /\ ~StartCall) => audio_frames' = audio_frames]_vars

\* a step of stop_recording
StopStep ==
    StopRecordingBegin \/ StopRecordingJoined \/ StopRecordingJoinTimeout

\* the last stop_recording returned a path and no start_recording has
\* succeeded since
AfterStopWithPath ==
    stopped /\ ret.op = "stop_recording" /\ ret.val = "path"

IsPrefix(f, g) == Len(f) <= Len(g) /\ SubSeq(g, 1, Len(f)) = f

\* C27: stop_recording never empties the frame store and only a successful
\* start_recording resets it; so a second stop_recording after one that
\* returned a path, with no start in between, returns a path again, having
\* written the same frames once more.
C27_SecondStopWritesSameFrames ==
    [][/\ StopStep => audio_frames' = audio_frames
       /\ ~IsPrefix(audio_frames, audio_frames') =>
            (StartCall /\ ret'.val = "true" /\ audio_frames' = <<>>)
       /\ (AfterStopWithPath /\ StopReturns) =>
            /\ ret'.val = "path"
            /\ saved' = saved]_vars

CallbackCall(t) ==
    on_recording_callback # "none" /\ (Callback(t) \/ CallbackRaises(t))

\* C29: the progress callback, when set, is called once after each appended
\* frame with the cumulative frame count, which runs 1, 2, 3, ... with no
\* value skipped or repeated; a callback that raises does not end the
\* capture, does not clear is_recording and does not remove the frame.
C29_CallbackCountsFrames ==
    [][\A t \in Threads :
        /\ CallbackCall(t) =>
            /\ cb_log' = Append(cb_log, Len(audio_frames))
            /\ Len(audio_frames) >= 1
            /\ Len(audio_frames) > 1 =>
                    /\ cb_log # <<>>
                    /\ cb_log[Len(cb_log)] = Len(audio_frames) - 1
        /\ CallbackRaises(t) =>
            /\ pc'[t] = "while"
            /\ UNCHANGED <<is_recording, audio_frames>>]_vars

(***************************************************************************)
(* Claims about recognition (checked under SpecTranscribe).                *)
(***************************************************************************)
\* the calls made so far to an engine for chunk j with a given outcome
Called(j, engine, outcome) ==
    \E k \in 1..Len(tr_calls) : /\ tr_calls[k].chunk = j
                                /\ tr_calls[k].engine = engine
                                /\ tr_calls[k].outcome = outcome

Attempted(j, engine) == Called(j, engine, "ok") \/ Called(j, engine, "error")

\* the chunks of the list that transcribe_chunks has dealt with so far
Processed == IF tr_mode \in ChunkModes THEN 0..(Len(tr_results) - 1) ELSE {}

\* C19: in transcribe_chunks, a chunk for which the remote recognizer failed is
\* recognized by the local engine, and the remote recognizer is attempted again
\* for every later chunk; so when the remote recognizer failed on every call
\* and the local engine succeeded on every call, every chunk result carries the
\* local method tag and none is tagged failed.
C19_RemoteFailureFallsBack ==
    /\ \A i \in Processed :
         Called(i, "openai_api", "error") =>
            /\ Attempted(i, "local_model")
            /\ Called(i, "local_model", "ok") =>
                    tr_results[i + 1].method = "local_model"
            /\ \A j \in Processed : j > i => Attempted(j, "openai_api")
    /\ (/\ tr_pc = "returned"
        /\ tr_mode = "chunks"
        /\ ~tr_local_only /\ tr_client
        /\ \A j \in Processed : ~Called(j, "openai_api", "ok")
        /\ \A j \in Processed : ~Called(j, "local_model", "error")) =>
            /\ Len(tr_ret) = tr_n
            /\ \A j \in Processed : /\ Called(j, "openai_api", "error")
                                    /\ tr_ret[j + 1].method = "local_model"

\* C19 witness: transcribe_chunks has returned for two chunks, the remote
\* recognizer having failed and the local engine succeeded for both.
C19_Witness ==
    /\ tr_pc = "returned"
    /\ tr_mode = "chunks"
    /\ tr_n = 2
    /\ \A j \in {0, 1} : /\ Called(j, "openai_api", "error")
                         /\ Called(j, "local_model", "ok")
                         /\ tr_ret[j + 1].method = "local_model"

\* C20: transcribe_chunks never raises; it returns one result per chunk, in
\* index order, every chunk having been given to an engine; the entry of a
\* chunk whose recognition failed (in the local engine, tried last or alone)
\* is the empty result tagged "failed" with the chunk's index and the error
\* text, and no other entry is tagged failed. A transcribe_file or
\* transcribe_meeting request raises the error to its caller exactly when the
\* recognition failed.
C20_FailureIsolatedPerChunk ==
    /\ tr_mode = "chunks" => tr_pc # "raised"
    /\ \A i \in Processed :
         /\ tr_results[i + 1].chunk_index = i
         /\ IF Called(i, "local_model", "error")
            THEN /\ tr_results[i + 1].text = <<>>
                 /\ tr_results[i + 1].duration = 0
                 /\ tr_results[i + 1].segments = <<>>
                 /\ tr_results[i + 1].words = <<>>
                 /\ tr_results[i + 1].method = "failed"
                 /\ tr_results[i + 1].error = "local_error"
            ELSE tr_results[i + 1].method \in {"openai_api", "local_model"}
    /\ (tr_mode = "chunks" /\ tr_pc = "returned") =>
         /\ tr_ret = tr_results
         /\ Len(tr_ret) = tr_n
         /\ \A i \in 0..(tr_n - 1) :
                Attempted(i, "openai_api") \/ Attempted(i, "local_model")
    /\ tr_mode \in {"file", "meeting"} =>
         /\ tr_pc = "raised" <=> Called(0, "local_model", "error")
         /\ tr_pc = "raised" => tr_ret = "local_error"
         /\ tr_pc = "returned" =>
                tr_ret.method \in {"openai_api", "local_model"}

\* C20 witness: transcribe_chunks has returned for two chunks, the first having
\* failed in both engines and the second recognized by the remote one.
C20_Witness ==
    /\ tr_pc = "returned"
    /\ tr_mode = "chunks"
    /\ tr_n = 2
    /\ Called(0, "openai_api", "error")
    /\ Called(0, "local_model", "error")
    /\ tr_ret[1].method = "failed"
    /\ tr_ret[2].method = "openai_api"

\* the chunks whose recognition failed in the request being made
FailedChunks == {i \in Processed : Called(i, "local_model", "error")}

\* the list results without its entry for chunk f
Without(results, f) ==
    [k \in 1..(Len(results) - 1) |->
        IF k <= f THEN results[k] ELSE results[k + 1]]

RECURSIVE MergeFold(_, _)
\* the accumulators of the merge loop after the first n entries of results
MergeFold(results, n) ==
    IF n = 0 THEN EmptyAcc
    ELSE MergeOne(MergeFold(results, n - 1), results[n], n - 1)

\* C21: transcribe_meeting_chunks never raises; when exactly one chunk of the
\* list failed, the merged transcript it returns has the text, duration and
\* words of the merge of the other N-1 chunk results and no segment of the
\* failed chunk, whose entry is the empty failed result; made a second time
\* with the engines answering as before, the request gives the same failed
\* entry and the same merged text and duration.
C21_OneFailedChunkMerged ==
    tr_mode = "meeting_chunks" =>
        /\ tr_pc # "raised"
        /\ (tr_pc = "returned" /\ Cardinality(FailedChunks) = 1) =>
            LET f == CHOOSE i \in FailedChunks : TRUE
                others == Without(tr_ret.chunk_results, f)
                m == MergeFold(others, Len(others))
            IN  /\ Len(tr_ret.chunk_results) = tr_n
                /\ tr_ret.chunk_count = tr_n
                /\ tr_ret.text = Strip(m.text)
                /\ tr_ret.duration = m.duration
                /\ tr_ret.words = m.words
                /\ Len(tr_ret.segments) = Len(m.segments)
                /\ \A k \in 1..Len(tr_ret.segments) :
                        tr_ret.segments[k].chunk_index # f
                /\ tr_ret.chunk_results[f + 1].method = "failed"
                /\ tr_ret.chunk_results[f + 1].text = <<>>
                /\ tr_ret.chunk_results[f + 1].duration = 0
                /\ tr_prev # NoRun =>
                        /\ tr_calls = tr_prev.calls
                        /\ tr_ret.chunk_results[f + 1] =
                                tr_prev.ret.chunk_results[f + 1]
                        /\ tr_ret.text = tr_prev.ret.text
                        /\ tr_ret.duration = tr_prev.ret.duration

\* C21 witness: transcribe_meeting_chunks has returned for the second time for
\* a list of two chunks of which one failed and the other gave a text.
C21_Witness ==
    /\ tr_mode = "meeting_chunks"
    /\ tr_pc = "returned"
    /\ tr_prev # NoRun
    /\ tr_n = 2
    /\ Cardinality(FailedChunks) = 1
    /\ tr_ret.text # <<>>

\* C22: a transcriber made local-only, without an API key or whose remote
\* client failed to initialize has no remote client; with local_only set or
\* no remote client, every call made is to the local engine and every result
\* of a successful recognition carries the local method tag.
C22_LocalOnlyNeverRemote ==
    /\ \A lo \in BOOLEAN, key \in BOOLEAN, ok \in BOOLEAN :
            (lo \/ ~key \/ ~ok) => ~InitializeClients(lo, key, ok)
    /\ (tr_local_only \/ ~tr_client) =>
            /\ \A k \in 1..Len(tr_calls) : tr_calls[k].engine = "local_model"
            /\ tr_stage # "remote"
            /\ \A i \in Processed :
                    tr_results[i + 1].method =
                        (IF Called(i, "local_model", "ok") THEN "local_model"
                         ELSE "failed")
            /\ (tr_mode \in {"file", "meeting"} /\ tr_pc = "returned") =>
                    tr_ret.method = "local_model"

\* C22 witness: a transcriber that is not local-only but has no remote client
\* has returned two chunk results, both from the local engine.
C22_Witness ==
    /\ ~tr_local_only
    /\ ~tr_client
    /\ tr_mode = "chunks"
    /\ tr_pc = "returned"
    /\ tr_n = 2
    /\ \A i \in {0, 1} : tr_ret[i + 1].method = "local_model"

(***************************************************************************)
(* Claims about merge_transcription_results (checked under SpecMerge).     *)
(***************************************************************************)
RECURSIVE SumDurations(_, _)
\* the sum of the reported durations of results 1..n
SumDurations(results, n) ==
    IF n = 0 THEN 0 ELSE SumDurations(results, n - 1) + results[n].duration

\* s shifted by d occurs in the merged segment list
ShiftedSegmentIn(s, d, merged) ==
    \E j \in 1..Len(merged) :
        /\ merged[j].start = s.start + d
        /\ merged[j].end = s.end + d

\* w shifted by d occurs in the merged word list
ShiftedWordIn(w, d, merged) ==
    \E j \in 1..Len(merged) : merged[j] = Word(w.word, w.start + d, w.end + d)

\* C1: every segment and every word timing of chunk i appears in the merged
\* lists with start and end increased by D, the sum of the reported durations
\* of the chunks before i.
C1_TimesShifted ==
    mg_pc = "returned" =>
        \A i \in 1..Len(mg_results) :
            LET D == SumDurations(mg_results, i - 1)
                r == mg_results[i]
            IN  /\ \A k \in 1..Len(r.segments) :
                        ShiftedSegmentIn(r.segments[k], D, mg_ret.segments)
                /\ \A k \in 1..Len(r.words) :
                        ShiftedWordIn(r.words[k], D, mg_ret.words)

\* C2: the merged duration is the sum of the reported durations of all chunk
\* results in the list, those with an empty text included.
C2_DurationIsSum ==
    mg_pc = "returned" =>
        mg_ret.duration = SumDurations(mg_results, Len(mg_results))

\* a chunk result whose segments are ordered by start and lie in [0, duration]
OrderedWithin(r) ==
    /\ \A k \in 1..Len(r.segments) :
            /\ 0 <= r.segments[k].start
            /\ r.segments[k].start <= r.segments[k].end
            /\ r.segments[k].end <= r.duration
    /\ \A k \in 1..(Len(r.segments) - 1) :
            r.segments[k].start <= r.segments[k + 1].start

\* C3: when every chunk's segments are ordered by start and lie within
\* [0, the chunk's duration], the merged segment starts never decrease, chunk
\* boundaries included.
C3_StartsNonDecreasing ==
    (/\ mg_pc = "returned"
     /\ \A i \in 1..Len(mg_results) : OrderedWithin(mg_results[i])) =>
        \A j \in 1..(Len(mg_ret.segments) - 1) :
            mg_ret.segments[j].start <= mg_ret.segments[j + 1].start

RECURSIVE JoinTexts(_, _)
\* the non-empty texts of the first n results, in list order, joined by one
\* space
JoinTexts(results, n) ==
    IF n = 0 THEN <<>>
    ELSE LET before == JoinTexts(results, n - 1)
             t == results[n].text
         IN  IF t = <<>> THEN before
             ELSE IF before = <<>> THEN t
             ELSE before \o <<" ">> \o t

RECURSIVE ConcatField(_, _, _)
\* the lists in field f of those of the first n results that have a text, one
\* after the other in list order, each item paired with its chunk's index
ConcatField(results, n, f) ==
    IF n = 0 THEN <<>>
    ELSE ConcatField(results, n - 1, f) \o
         (IF results[n].text = <<>> THEN <<>>
          ELSE [k \in 1..Len(results[n][f]) |->
                    [item |-> results[n][f][k], chunk |-> n - 1]])

\* the segments and words of chunk i all precede those of chunk j > i in the
\* merged lists
MergedInIndexOrder ==
    LET segs == ConcatField(mg_results, Len(mg_results), "segments")
        wrds == ConcatField(mg_results, Len(mg_results), "words")
    IN  /\ Len(mg_ret.segments) = Len(segs)
        /\ \A k \in 1..Len(segs) :
                mg_ret.segments[k] =
                    [start |-> segs[k].item.start, end |-> segs[k].item.end,
                     chunk_index |-> segs[k].chunk]
        /\ mg_ret.words = [k \in 1..Len(wrds) |-> wrds[k].item]

\* C23 (as stated): the merged text is the non-empty chunk texts in index order
\* joined by exactly one space, and the segments and words of chunk i precede
\* those of chunk j whenever i < j.
C23_TextJoinedInOrder ==
    mg_pc = "returned" =>
        /\ mg_ret.text = JoinTexts(mg_results, Len(mg_results))
        /\ MergedInIndexOrder

\* C23 (amended): the merged text is the non-empty chunk texts in index order
\* joined by exactly one space, with the spaces at the two ends of the whole
\* removed; the segments and words of chunk i precede those of chunk j
\* whenever i < j.
C23_TextJoinedAndStripped ==
    mg_pc = "returned" =>
        /\ mg_ret.text = Strip(JoinTexts(mg_results, Len(mg_results)))
        /\ MergedInIndexOrder

\* C23 witness: two chunks with texts, segments and words have been merged, the
\* first text beginning with a space.
C23_Witness ==
    /\ mg_pc = "returned"
    /\ Len(mg_results) = 2
    /\ mg_results[1].text = <<" ", "b">>
    /\ mg_results[2].text = <<"a">>
    /\ mg_ret.text = <<"b", " ", "a">>
    /\ Len(mg_ret.segments) = 3
    /\ Len(mg_ret.words) = 2

\* C25: merge_transcription_results leaves its input unchanged: no step of the
\* merge alters the list passed in, a chunk result in it, or a segment or a
\* word of one; chunk_index is set only on the copies in the merged list.
C25_InputUnchanged ==
    [][/\ mg_results' = mg_results
       /\ \A j \in 1..Len(mg_results') :
            \A k \in 1..Len(mg_results'[j].segments) :
                "chunk_index" \notin DOMAIN mg_results'[j].segments[k]]_vars

\* C25 witness: a merge has returned annotated copies of the segments of a
\* chunk whose own segments carry no chunk_index.
C25_Witness ==
    /\ mg_pc = "returned"
    /\ Len(mg_results) = 2
    /\ Len(mg_results[2].segments) = 2
    /\ Len(mg_ret.segments) >= 2
    /\ \A k \in 1..Len(mg_ret.segments) :
        "chunk_index" \in DOMAIN mg_ret.segments[k]
    /\ \A k \in 1..2 : "chunk_index" \notin DOMAIN mg_results[2].segments[k]

(***************************************************************************)
(* Claims about split_into_chunks (checked under SpecSplit).               *)
(***************************************************************************)
RECURSIVE Flatten(_)
\* the concatenation of a list of chunks
Flatten(chunks) ==
    IF chunks = <<>> THEN <<>> ELSE Head(chunks) \o Flatten(Tail(chunks))

\* ceil(n / d) for n >= 0, d > 0
CeilDiv(n, d) == (n + d - 1) \div d

\* C4 (as stated): split_into_chunks never returns an empty list; for a buffer
\* of zero samples it returns exactly one chunk, the empty input.
C4_NeverZeroChunks ==
    sp_pc = "returned" =>
        /\ sp_ret # <<>>
        /\ sp_audio = <<>> => sp_ret = <<sp_audio>>

\* C4 (amended): for a buffer of zero samples split_into_chunks returns the
\* empty list when the chunk size is not zero, and the one-chunk list holding
\* the empty input only when the chunk size is zero (the except clause); for a
\* buffer with samples and a positive chunk size it returns at least one chunk.
C4_EmptyBufferNoChunks ==
    sp_pc = "returned" =>
        /\ (sp_audio = <<>> /\ chunk_size # 0) => sp_ret = <<>>
        /\ (sp_audio = <<>> /\ chunk_size = 0) => sp_ret = <<sp_audio>>
        /\ (sp_audio # <<>> /\ chunk_size > 0) => sp_ret # <<>>

\* C4 witness: the split of an empty buffer with a positive chunk size has
\* returned, with no chunk.
C4_Witness ==
    /\ sp_pc = "returned"
    /\ sp_audio = <<>>
    /\ chunk_size > 0
    /\ sp_ret = <<>>

\* C5: a buffer of L > 0 samples split with chunk size S > 0 gives ceil(L/S)
\* chunks whose concatenation is the input, all of S samples but the last,
\* which has between 1 and S; 75 seconds in 30-second chunks give 30, 30, 15.
C5_SplitPartitions ==
    (sp_pc = "returned" /\ Len(sp_audio) > 0 /\ chunk_size > 0) =>
        LET n == Len(sp_ret)
        IN  /\ n = CeilDiv(Len(sp_audio), chunk_size)
            /\ Flatten(sp_ret) = sp_audio
            /\ \A j \in 1..(n - 1) : Len(sp_ret[j]) = chunk_size
            /\ Len(sp_ret[n]) >= 1
            /\ Len(sp_ret[n]) <= chunk_size
            /\ (Len(sp_audio) = 75 * sp_sr /\ sp_secs = 30) =>
                    [j \in 1..n |-> Len(sp_ret[j])]
                        = <<30 * sp_sr, 30 * sp_sr, 15 * sp_sr>>

\* C5 witness: the 75-second buffer has been split into 30-second chunks, the
\* last one partial.
C5_Witness ==
    /\ sp_pc = "returned"
    /\ Len(sp_audio) = 75
    /\ chunk_size = 30
    /\ Len(sp_ret) = 3
    /\ Len(sp_ret[3]) = 15

(***************************************************************************)
(* Claims about enhance_audio (checked under SpecEnhance).                 *)
(***************************************************************************)
StageOrder == <<"reduce_noise", "normalize_audio", "trim_silence">>

\* C24: enhance_audio runs noise reduction, level normalization and silence
\* trimming in that order, each stage on what the one before returned; a stage
\* that fails returns its own input unchanged and the later stages still run;
\* the call ends by returning the last stage's buffer, never by raising.
C24_StagesInOrderFailuresPassThrough ==
    /\ en_pc \in {"off", "reduce_noise", "normalize_audio", "trim_silence",
                  "log", "returned"}
    /\ Len(en_stages) <= Len(StageOrder)
    /\ \A k \in 1..Len(en_stages) :
        /\ en_stages[k].stage = StageOrder[k]
        /\ en_stages[k].in = IF k = 1 THEN en_audio ELSE en_stages[k - 1].out
        /\ en_stages[k].failed => en_stages[k].out = en_stages[k].in
    /\ en_pc = "returned" =>
        /\ Len(en_stages) = Len(StageOrder)
        /\ en_ret = en_stages[Len(StageOrder)].out
        /\ en_ret \in Seq(Int)

\* C24 witness: the call has returned after the first stage changed the
\* buffer, the second failed and the third still trimmed what it was passed.
C24_Witness ==
    /\ en_pc = "returned"
    /\ ~en_stages[1].failed
    /\ en_stages[1].out # en_audio
    /\ en_stages[2].failed
    /\ ~en_stages[3].failed
    /\ en_stages[3].out # en_stages[3].in
    /\ en_ret # <<>>

(***************************************************************************)
(* Claims about the pipeline commands (checked under SpecCommand).         *)
(***************************************************************************)
\* the recognition request of the command has been made
Requested == cmd_pc \in {"recognize", "formatting", "aborted"}

\* the calls to the engines were made chunk after chunk, from chunk 0 on, none
\* left out
CallsInIndexOrder ==
    /\ \A a, b \in 1..Len(tr_calls) :
            a <= b => tr_calls[a].chunk <= tr_calls[b].chunk
    /\ \A k \in 1..Len(tr_calls) :
            \A j \in 0..tr_calls[k].chunk : Attempted(j, "openai_api")
                                            \/ Attempted(j, "local_model")

\* C30: a pipeline command uses chunk-list recognition followed by the merge
\* exactly when the splitter returned more than one chunk, and then passes one
\* saved file per chunk, all distinct, in index order, a failed chunk not
\* ending the command; with one chunk or none it makes a single request for
\* the whole processed file, which a failure of recognition aborts.
C30_ModeFollowsChunkCount ==
    Requested =>
        /\ (tr_mode = "meeting_chunks") <=> (cmd_chunks > 1)
        /\ (tr_mode = "meeting") <=> (cmd_chunks <= 1)
        /\ cmd_chunks > 1 =>
            /\ Len(cmd_paths) = cmd_chunks
            /\ tr_n = cmd_chunks
            /\ \A j, k \in 1..cmd_chunks : j # k => cmd_paths[j] # cmd_paths[k]
            /\ \A k \in 1..cmd_chunks :
                    cmd_paths[k].name = <<"processed_", "chunk_", k - 1, ".wav">>
            /\ CallsInIndexOrder
            /\ tr_pc # "raised"
            /\ cmd_pc # "aborted"
            /\ cmd_pc = "formatting" =>
                    /\ tr_ret.meeting_type = "chunked_meeting"
                    /\ tr_ret.chunk_count = cmd_chunks
                    /\ Len(tr_ret.chunk_results) = cmd_chunks
        /\ cmd_chunks <= 1 =>
            /\ cmd_paths = <<cmd_processed_file>>
            /\ \A k \in 1..Len(tr_calls) : tr_calls[k].chunk = 0
            /\ mg_pc = "off"
            /\ Called(0, "local_model", "error") => tr_pc = "raised"
            /\ cmd_pc = "aborted" <=>
                    (tr_pc = "raised" /\ cmd_pc # "recognize")
            /\ cmd_pc = "formatting" =>
                    tr_ret.meeting_type = "full_meeting"

\* C30 witness: a command whose splitter returned three chunks has gone on to
\* formatting although the recognition of the second chunk failed.
C30_Witness ==
    /\ cmd_pc = "formatting"
    /\ cmd_chunks = 3
    /\ tr_ret.chunk_results[2].method = "failed"
    /\ tr_ret.chunk_results[3].method # "failed"

=============================================================================
